---- MODULE Spec2Model ----
(***************************************************************************)
(* Model of rm-rf-async.c: the asynchronous recursive delete built on Gio. *)
(*                                                                         *)
(* One AsyncRmContext exists per directory being deleted.  Every Gio       *)
(* operation (enumerate_children, next_files, delete) is issued            *)
(* asynchronously and stays pending until the main loop dispatches its     *)
(* callback; the outcome of the operation, and its effect on the disk, are *)
(* recorded at that dispatch.  Callbacks run one at a time on the main     *)
(* loop; a callback that calls g_simple_async_result_complete runs the     *)
(* callback of that result inside itself.                                  *)
(***************************************************************************)
EXTENDS Integers, Sequences, FiniteSets, TLC

\* Largest tree: the root is node 1, the other entries are 2..MaxNodes.
MaxNodes == 5
\* The batch size asked of g_file_enumerator_next_files_async.
NumFiles == 20
\* How many lines of progress output are recorded.
MaxPrints == 3
\* Largest tree that holds symlinks.
MaxLinkNodes == 3

Nodes == 1..MaxNodes
\* Most directories in a tree, the root included: half of the entries, rounded up.
MaxDirs == (MaxNodes + 1) \div 2
Root == 1
NULL == "NULL"
Token == "cancellable"
OpKinds == {"enumerate", "next_files", "delete"}
Ops == OpKinds \X Nodes

VARIABLES
  parent,             \* the tree on disk: parent[n] is n's directory, 0 for the root and absent nodes
  kind,               \* "dir", "file", "symlink", or "absent"
  exists,             \* the entries currently on disk
  ctx,                \* AsyncRmContext of a directory: "none", "live" or "freed"
  num_files_pending,  \* data->num_files_pending
  have_more_files,    \* data->have_more_files
  cancellable,        \* data->cancellable
  result,             \* data->result: its callback, user_data and error
  op,                 \* each asynchronous operation: state, cancellable, callback, user_data
  issued,             \* how many times each operation was issued
  cursor,             \* how many entries the directory's enumerator has handed out
  requestPos,         \* entries of a batch dispatched when the next batch was requested
  liveAtFinish,       \* the contexts not yet freed when on_rm_finished was called
  completed,          \* how many times g_simple_async_result_complete ran for data->result
  files_deleted,      \* the global counter
  cancelled,          \* whether the caller's GCancellable has been cancelled
  timer,              \* whether the 1-second timeout source is attached
  printed,            \* the counter values printed by print_progress
  failed,             \* the operations whose failure a callback has seen
  errPrinted,         \* whether fatal_gerror printed a message
  finished,           \* how many times on_rm_finished was called
  pc                  \* "run": main loop running; "quit": loop told to quit; "exit0", "exit1"

vars == << parent, kind, exists, ctx, num_files_pending, have_more_files, cancellable,
           result, op, issued, cursor, requestPos, liveAtFinish, completed, files_deleted,
           cancelled, timer, printed, failed, errPrinted, finished, pc >>

----------------------------------------------------------------------------
\* The tree on disk

Min(a, b) == IF a < b THEN a ELSE b

Children(d) == { n \in Nodes : parent[n] = d }

RECURSIVE SeqOfSet(_)
SeqOfSet(S) == IF S = {} THEN << >>
               ELSE LET m == CHOOSE x \in S : \A y \in S : x <= y
                    IN  << m >> \o SeqOfSet(S \ {m})

\* The entries of directory d in the order its enumerator yields them.
Listing(d) == SeqOfSet(Children(d))

RECURSIVE Ancestors(_)
Ancestors(n) == IF parent[n] = 0 THEN {} ELSE {parent[n]} \cup Ancestors(parent[n])

Present == { n \in Nodes : kind[n] # "absent" }
Dirs == { n \in Nodes : kind[n] = "dir" }
Depth(n) == Cardinality(Ancestors(n))

EntryKinds == {"dir", "file", "symlink"}

\* Trees of exactly k entries of the given kinds, numbered breadth-first so
\* that each shape appears once; only directories have entries.
RECURSIVE Shapes(_, _)
Shapes(k, kinds) ==
  IF k = 1 THEN { << [parent |-> 0, kind |-> "dir"] >> }
  ELSE UNION { { Append(s, [parent |-> p, kind |-> kd]) :
                   p \in { q \in 1..(k - 1) : s[q].kind = "dir" /\ q >= s[k - 1].parent },
                   kd \in { x \in kinds : x = "dir" =>
                              Cardinality({ i \in 1..(k - 1) : s[i].kind = "dir" }) < MaxDirs }
                 } : s \in Shapes(k - 1, kinds) }

\* All trees of directories and files up to MaxNodes entries, and all trees
\* that also hold symlinks up to MaxLinkNodes entries.
Trees == UNION { Shapes(k, {"dir", "file"}) : k \in 1..MaxNodes }
           \cup UNION { Shapes(k, EntryKinds) : k \in 1..Min(MaxLinkNodes, MaxNodes) }

----------------------------------------------------------------------------
\* Asynchronous operations

IdleOp == [state |-> "idle", cancellable |-> NULL, callback |-> "none", data |-> 0,
           late |-> FALSE]

\* An operation issued with cancellable tok, callback cb and user_data d; late
\* records that the caller's GCancellable was already cancelled by then.
NewOp(tok, cb, d) == [state |-> "pending", cancellable |-> tok, callback |-> cb, data |-> d,
                      late |-> cancelled]

\* The operations in `new` (a function from operations to their records) are
\* issued; operation `self`, whose callback is running, is over unless issued again.
IssueOps(self, new) ==
  /\ op' = [o \in Ops |-> IF o \in DOMAIN new THEN new[o]
                          ELSE IF o = self THEN [op[o] EXCEPT !.state = "handled"]
                          ELSE op[o]]
  /\ issued' = [o \in Ops |-> IF o \in DOMAIN new THEN issued[o] + 1 ELSE issued[o]]

\* The main loop dispatches the callback cb of the finished operation o.
Ready(o, cb) == /\ pc = "run"
                /\ op[o].state = "pending"
                /\ op[o].callback = cb

\* Whether Gio and the filesystem can carry out the operation: not when it was
\* issued with a GCancellable already cancelled; a listing is opened on an
\* existing directory, or through a symlink on the directory it points to
\* (every symlink of the model points to a directory outside the tree, whose
\* entries are not part of the model); a delete removes an existing entry,
\* a symlink itself and never its target, and a directory only when it is empty.
CanSucceed(o) ==
  /\ ~(op[o].late /\ op[o].cancellable # NULL)
  /\ o[1] = "enumerate" => (o[2] \in exists /\ kind[o[2]] \in {"dir", "symlink"})
  /\ o[1] = "delete" => (o[2] \in exists /\ Children(o[2]) \cap exists = {})

\* The outcome the callback of o finds: ok or not; a failure is always possible.
Outcome(o, ok) ==
  /\ ok => CanSucceed(o)
  /\ failed' = IF ok THEN failed ELSE failed \cup {o}

----------------------------------------------------------------------------
\* The program

\* Variants of IsFatal with one check left out: of the directory's own delete,
\* of the batch.
IsFatalButDirectory(cb, ok) == cb # "on_end_directory_deleted" /\ ~ok
IsFatalButBatch(cb, ok) == cb # "on_next_files" /\ ~ok

\* Every callback checks the outcome of its operation first: a failure goes
\* to fatal_gerror.
IsFatal(cb, ok) == ~ok

\* rm_rf_finish: TRUE unless the result carries an error.
rm_rf_finish(d) == ~result[d].error

\* Variants of check_no_children that leave out one half of the condition.
check_no_children_NoCount(pending, more) == ~more
check_no_children_NoFlag(pending, more) == pending = 0

\* Variant of check_no_children: the test of have_more_files the wrong way round.
check_no_children_Inverted(pending, more) == pending = 0 /\ more

\* check_no_children: whether the directory's own delete is issued now.
check_no_children(pending, more) == pending = 0 /\ ~more

\* Variant of FileType: the type of what a symlink points to.
FileType_Followed(n) == IF kind[n] = "symlink" THEN "dir" ELSE kind[n]

\* The type the enumerator reports for an entry; symlinks are not followed.
FileType(n) == kind[n]

\* What print_progress returns to the main loop: FALSE removes the source.
print_progress == FALSE

\* Variant of Dec: the decrement forgotten.
DecForgotten(x) == x

\* guint arithmetic of num_files_pending.  A 32-bit value is held by its bit
\* pattern read as a signed number, so that 0 - 1, the guint G_MAXUINT, is -1.
Dec(x) == x - 1
Add(x, k) == x + k

\* Variant of DirectoryDeleted: directories are not counted.
DirectoryNotCounted(c) == c

\* files_deleted++ in on_file_deleted and in on_end_directory_deleted.
FileDeleted(c) == c + 1
DirectoryDeleted(c) == c + 1

\* g_simple_async_result_new in rm_rf_async: no error is ever set on it.
NewResult(cb, ud) == [callback |-> cb, user_data |-> ud, error |-> FALSE]

\* rm_rf_async: the listing of directory f is opened with the caller's cancellable.
rm_rf_async(f, tok) == << "enumerate", f >> :> NewOp(tok, "on_enumerate_children", f)

\* The directory's own delete, issued by check_no_children.
DeleteDirectory(d) == << "delete", d >> :> NewOp(cancellable[d], "on_end_directory_deleted", d)

\* Variant of fatal_gerror: the process exits without printing the message.
fatal_gerror_Silent ==
  /\ pc' = "exit1"
  /\ UNCHANGED << parent, kind, exists, ctx, num_files_pending, have_more_files,
                  cancellable, result, op, issued, cursor, requestPos,
                  liveAtFinish, completed, files_deleted, cancelled, timer,
                  printed, finished, errPrinted >>

\* fatal_gerror: print the message and exit(1); nothing else happens any more.
fatal_gerror ==
  /\ errPrinted' = TRUE
  /\ pc' = "exit1"
  /\ UNCHANGED << parent, kind, exists, ctx, num_files_pending, have_more_files,
                  cancellable, result, op, issued, cursor, requestPos,
                  liveAtFinish, completed, files_deleted, cancelled, timer,
                  printed, finished >>

\* The state main() leaves when it enters g_main_loop_run: rm_rf_async was
\* called on the root with cancellable tok, and the timeout source is attached.
main(t, tok) ==
  /\ parent = [n \in Nodes |-> IF n <= Len(t) THEN t[n].parent ELSE 0]
  /\ kind = [n \in Nodes |-> IF n <= Len(t) THEN t[n].kind ELSE "absent"]
  /\ exists = 1..Len(t)
  /\ ctx = [n \in Nodes |-> IF n = Root THEN "live" ELSE "none"]
  /\ num_files_pending = [n \in Nodes |-> 0]
  /\ have_more_files = [n \in Nodes |-> FALSE]
  /\ cancellable = [n \in Nodes |-> IF n = Root THEN tok ELSE NULL]
  /\ result = [n \in Nodes |-> IF n = Root
                 THEN NewResult("on_rm_finished", 0) ELSE NewResult("none", 0)]
  /\ cancelled = FALSE
  /\ op = [o \in Ops |-> IF o = << "enumerate", Root >>
                         THEN [state |-> "pending", cancellable |-> tok,
                               callback |-> "on_enumerate_children", data |-> Root,
                               late |-> FALSE]
                         ELSE IdleOp]
  /\ issued = [o \in Ops |-> IF o = << "enumerate", Root >> THEN 1 ELSE 0]
  /\ cursor = [n \in Nodes |-> 0]
  /\ requestPos = [n \in Nodes |-> 0]
  /\ liveAtFinish = {}
  /\ completed = [n \in Nodes |-> 0]
  /\ files_deleted = 0
  /\ timer = TRUE
  /\ printed = << >>
  /\ failed = {}
  /\ errPrinted = FALSE
  /\ finished = 0
  /\ pc = "run"

Init == \E t \in Trees : main(t, NULL)

\* Variant of FirstBatch: check_no_children is called on the new context too.
FirstBatch_Checked(d) ==
  (<< "next_files", d >> :> NewOp(cancellable[d], "on_next_files", d))
    @@ (IF check_no_children(num_files_pending[d], have_more_files[d])
        THEN DeleteDirectory(d) ELSE << >>)

\* What on_enumerate_children issues: the request for the first batch.
FirstBatch(d) == << "next_files", d >> :> NewOp(cancellable[d], "on_next_files", d)

\* on_enumerate_children.  Without an enumerator the request for the first
\* batch is refused by Gio and nothing is issued.
on_enumerate_children(d) ==
  LET o == << "enumerate", d >>
  IN  /\ Ready(o, "on_enumerate_children")
      /\ \E ok \in BOOLEAN :
           /\ Outcome(o, ok)
           /\ IF IsFatal("on_enumerate_children", ok)
              THEN fatal_gerror
              ELSE /\ IssueOps(o, IF ok THEN FirstBatch(d) ELSE << >>)
                   /\ UNCHANGED << parent, kind, exists, ctx, num_files_pending,
                                   have_more_files, cancellable, result, cursor,
                                   requestPos, liveAtFinish, completed,
                                   files_deleted, cancelled, timer, printed,
                                   errPrinted, finished, pc >>

\* The operation on_next_files starts for one entry f of directory d's batch.
Dispatch(d, f) ==
  IF FileType(f) = "dir"
  THEN rm_rf_async(f, cancellable[d])
  ELSE << "delete", f >> :> NewOp(NULL, "on_file_deleted", d)

RECURSIVE DispatchAll(_, _)
DispatchAll(d, files) ==
  IF files = << >> THEN << >>
  ELSE Dispatch(d, Head(files)) @@ DispatchAll(d, Tail(files))

\* The batches g_file_enumerator_next_files_finish can return: up to NumFiles
\* further entries of the listing, and none only at its end.
Batches(d) ==
  LET left == Len(Listing(d)) - cursor[d]
  IN  { SubSeq(Listing(d), cursor[d] + 1, cursor[d] + b) :
          b \in { c \in 0..Min(NumFiles, left) : (c = 0) = (left = 0) } }

\* Variant of NextFilesSteps: the next batch is requested after the loop.
NextFilesSteps_DispatchFirst(files) ==
  [i \in 1..Len(files) |-> "dispatch"] \o << "request" >>

\* What on_next_files does with a batch that is not empty, in order: it
\* requests the next batch, then its loop dispatches the entries one by one.
NextFilesSteps(files) ==
  << "request" >> \o [i \in 1..Len(files) |-> "dispatch"]

\* How many entries on_next_files has dispatched when it requests the next batch.
DispatchedAtRequest(files) ==
  CHOOSE i \in 0..Len(files) : NextFilesSteps(files)[i + 1] = "request"

\* on_next_files
on_next_files(d) ==
  LET o == << "next_files", d >>
  IN  /\ Ready(o, "on_next_files")
      /\ \E ok \in BOOLEAN :
           /\ Outcome(o, ok)
           /\ IF IsFatal("on_next_files", ok)
              THEN fatal_gerror
              ELSE \E files \in (IF ok THEN Batches(d) ELSE { << >> }) :
                     LET fileSet == { files[i] : i \in 1..Len(files) }
                         subdirs == { f \in fileSet : FileType(f) = "dir" }
                         more == files # << >>
                         first == IF more
                                  THEN << "next_files", d >> :> NewOp(NULL, "on_next_files", d)
                                  ELSE IF check_no_children(num_files_pending[d], FALSE)
                                       THEN DeleteDirectory(d)
                                       ELSE << >>
                     IN  /\ cursor' = [cursor EXCEPT ![d] = @ + Len(files)]
                         /\ have_more_files' = [n \in Nodes |->
                                                  IF n = d THEN more
                                                  ELSE IF n \in subdirs THEN FALSE
                                                  ELSE have_more_files[n]]
                         /\ num_files_pending' =
                              [n \in Nodes |->
                                 IF n = d THEN Add(num_files_pending[d], Len(files))
                                 ELSE IF n \in subdirs THEN 0
                                 ELSE num_files_pending[n]]
                         /\ ctx' = [n \in Nodes |-> IF n \in subdirs THEN "live" ELSE ctx[n]]
                         /\ cancellable' = [n \in Nodes |->
                                              IF n \in subdirs THEN cancellable[d]
                                              ELSE cancellable[n]]
                         /\ result' = [n \in Nodes |->
                                         IF n \in subdirs
                                         THEN NewResult("on_rm_rf_complete", d)
                                         ELSE result[n]]
                         /\ requestPos' = IF more
                                          THEN [requestPos EXCEPT
                                                  ![d] = DispatchedAtRequest(files)]
                                          ELSE requestPos
                         /\ IssueOps(o, DispatchAll(d, files) @@ first)
                         /\ UNCHANGED << parent, kind, exists, completed,
                                         files_deleted, liveAtFinish, cancelled,
                                         timer, printed, errPrinted, finished,
                                         pc >>

\* on_file_deleted: f is the entry deleted, the directory is the operation's user_data.
on_file_deleted(f) ==
  LET o == << "delete", f >>
      d == op[o].data
      pending == Dec(num_files_pending[d])
  IN  /\ Ready(o, "on_file_deleted")
      /\ \E ok \in BOOLEAN :
           /\ Outcome(o, ok)
           /\ IF IsFatal("on_file_deleted", ok)
              THEN fatal_gerror
              ELSE /\ exists' = IF ok THEN exists \ {f} ELSE exists
                   /\ files_deleted' = FileDeleted(files_deleted)
                   /\ num_files_pending' = [num_files_pending EXCEPT ![d] = pending]
                   /\ IssueOps(o, IF check_no_children(pending, have_more_files[d])
                                  THEN DeleteDirectory(d)
                                  ELSE << >>)
                   /\ UNCHANGED << parent, kind, ctx, have_more_files,
                                   cancellable, result, cursor, requestPos,
                                   liveAtFinish, completed, cancelled, timer,
                                   printed, errPrinted, finished, pc >>

\* The contexts allocated by rm_rf_async and not yet freed.
LiveContexts == { n \in Nodes : ctx[n] = "live" }

\* on_end_directory_deleted, and the callback of data->result that
\* g_simple_async_result_complete runs inside it: on_rm_rf_complete of the
\* parent directory, or on_rm_finished for the root.  Either exits through
\* fatal_gerror when rm_rf_finish reports an error.  The callback runs before
\* the context of d is freed.
on_end_directory_deleted(d) ==
  LET o == << "delete", d >>
      p == result[d].user_data
      top == result[d].callback = "on_rm_finished"
      pending == Dec(num_files_pending[p])
  IN  /\ Ready(o, "on_end_directory_deleted")
      /\ \E ok \in BOOLEAN :
           /\ Outcome(o, ok)
           /\ IF IsFatal("on_end_directory_deleted", ok)
              THEN fatal_gerror
              ELSE /\ exists' = IF ok THEN exists \ {d} ELSE exists
                   /\ files_deleted' = DirectoryDeleted(files_deleted)
                   /\ completed' = [completed EXCEPT ![d] = @ + 1]
                   /\ finished' = IF top THEN finished + 1 ELSE finished
                   /\ IF ~rm_rf_finish(d)
                      THEN /\ errPrinted' = TRUE
                           /\ pc' = "exit1"
                           /\ UNCHANGED << ctx, num_files_pending, op, issued >>
                      ELSE /\ ctx' = [ctx EXCEPT ![d] = "freed"]
                           /\ UNCHANGED errPrinted
                           /\ IF top
                              THEN \* on_rm_finished
                                   /\ pc' = "quit"
                                   /\ IssueOps(o, << >>)
                                   /\ UNCHANGED num_files_pending
                              ELSE \* on_rm_rf_complete
                                   /\ num_files_pending' =
                                        [num_files_pending EXCEPT ![p] = pending]
                                   /\ IssueOps(o, IF check_no_children(pending,
                                                                       have_more_files[p])
                                                  THEN DeleteDirectory(p)
                                                  ELSE << >>)
                                   /\ UNCHANGED pc
                   /\ liveAtFinish' = IF top THEN LiveContexts ELSE liveAtFinish
                   /\ UNCHANGED << parent, kind, have_more_files, cancellable,
                                   result, cursor, requestPos, cancelled, timer,
                                   printed >>

\* print_progress run by the timeout source.
TimerFires ==
  /\ pc \in {"run", "quit"}
  /\ timer
  /\ Len(printed) < MaxPrints
  /\ printed' = Append(printed, files_deleted)
  /\ timer' = print_progress
  /\ UNCHANGED << parent, kind, exists, ctx, num_files_pending, have_more_files,
                  cancellable, result, op, issued, cursor, requestPos,
                  liveAtFinish, completed, files_deleted, cancelled, failed,
                  errPrinted, finished, pc >>

\* main after g_main_loop_run returns: print_progress once more, return 0.
MainReturns ==
  /\ pc = "quit"
  /\ printed' = Append(printed, files_deleted)
  /\ pc' = "exit0"
  /\ UNCHANGED << parent, kind, exists, ctx, num_files_pending, have_more_files,
                  cancellable, result, op, issued, cursor, requestPos,
                  liveAtFinish, completed, files_deleted, cancelled, timer,
                  failed, errPrinted, finished >>

\* The holder of the GCancellable cancels it.
Cancel ==
  /\ pc = "run"
  /\ cancellable[Root] # NULL
  /\ ~cancelled
  /\ cancelled' = TRUE
  /\ UNCHANGED << parent, kind, exists, ctx, num_files_pending, have_more_files,
                  cancellable, result, op, issued, cursor, requestPos,
                  liveAtFinish, completed, files_deleted, timer, printed,
                  failed, errPrinted, finished, pc >>

----------------------------------------------------------------------------
\* Specifications

\* The deletion engine and the end of the process.
NextEngine ==
  \/ \E d \in Nodes : on_enumerate_children(d)
  \/ \E d \in Nodes : on_next_files(d)
  \/ \E f \in Nodes : on_file_deleted(f)
  \/ \E d \in Nodes : on_end_directory_deleted(d)
  \/ MainReturns

\* The whole program: the engine and the progress reporter.
Next == NextEngine \/ TimerFires

Spec == Init /\ [][Next]_vars

\* The program between the firings of the timeout source.  TimerFires changes
\* only timer and printed, which no other action reads, so what holds of the
\* other variables here holds under Spec.
SpecEngine == Init /\ [][NextEngine]_vars

\* The main loop dispatches the callback of every finished operation in the end.
SpecFair == SpecEngine /\ WF_vars(NextEngine)

\* rm_rf_async called with a GCancellable that its holder may cancel.
InitCancel == \E t \in Trees : main(t, Token)

NextCancel == NextEngine \/ Cancel

SpecCancel == InitCancel /\ [][NextCancel]_vars

----------------------------------------------------------------------------
\* Properties

\* The entries of d that its batches have returned so far.
Observed(d) == { Listing(d)[i] : i \in 1..cursor[d] }

\* The delete of entry n has been confirmed to the directory that holds it: a
\* leaf by on_file_deleted, a sub-directory by the callback of its result.
Confirmed(n) ==
  IF kind[n] = "dir"
  THEN completed[n] > 0 /\ ctx[n] = "freed"
  ELSE op[<< "delete", n >>].state = "handled"

\* The operations issued and not yet handled by a callback.
InFlight == { o \in Ops : op[o].state = "pending" }

\* The top-level callback was called and found no error.
Notified == finished > 0 /\ pc \in {"quit", "exit0"}

\* C1: a directory's own delete is issued only when the delete of every entry
\* observed in its listing has been confirmed and the entry is gone from disk.
C1_ChildrenBeforeParent ==
  \A d \in Dirs :
    issued[<< "delete", d >>] > 0 =>
      \A n \in Observed(d) : Confirmed(n) /\ n \notin exists

\* A directory holding a file and a sub-directory has its delete in flight.
C1_Witness ==
  \E d \in Dirs :
    /\ op[<< "delete", d >>].state = "pending"
    /\ \E a, b \in Observed(d) : kind[a] = "dir" /\ kind[b] = "file"

\* C2: once the top-level callback has run without error, nothing of the tree
\* is left on disk, the root included.
C2_TreeGone == Notified => exists = {}

\* The top-level callback has run for a tree of four entries or more.
C2_Witness == Notified /\ Cardinality(Present) >= 4 /\ exists = {}

\* C3: unless an operation fails, the top-level callback is called in the end
\* and tells the main loop to quit.
C3_Terminates == <>(failed # {} \/ Notified)

\* A tree with two levels of sub-directories has been deleted and notified.
C3_Witness == Notified /\ failed = {} /\ \E n \in Present : Depth(n) >= 2

C5_CounterIsSize == Notified => files_deleted = Cardinality(Present)

\* A run on a tree holding a sub-directory and a file has ended with exit code 0.
C5_Witness ==
  /\ pc = "exit0"
  /\ files_deleted >= 4
  /\ \E a, b \in Present : a # Root /\ kind[a] = "dir" /\ kind[b] = "file"

\* C6 as stated: a failure reaches the top-level caller, on_rm_finished is
\* called and rm_rf_finish reports the failure.
C6_ErrorReachesCaller == failed # {} => (finished > 0 /\ ~rm_rf_finish(Root))

\* C6 amended: the callback that finds a failure prints the message and exits
\* with status 1 at once; on_rm_finished is not called, and rm_rf_finish never
\* reports a failure, since no error is ever set on a result.
C6_ExitsAtOnce ==
  /\ failed # {} => (pc = "exit1" /\ errPrinted /\ finished = 0)
  /\ \A d \in Nodes : rm_rf_finish(d)

\* A callback has found a failure while two other operations were in flight.
C6_Witness == failed # {} /\ pc = "exit1" /\ Cardinality(InFlight) >= 2

\* C7: when the delete of a leaf fails, no directory above the leaf is deleted:
\* each is still on disk and no delete has been issued for it.
C7_AncestorsKept ==
  \A o \in failed :
    (o[1] = "delete" /\ kind[o[2]] # "dir") =>
      \A a \in Ancestors(o[2]) : a \in exists /\ issued[<< "delete", a >>] = 0

\* The delete of a leaf three levels down has failed, another delete in flight.
C7_Witness ==
  \E o \in failed :
    /\ o[1] = "delete" /\ kind[o[2]] # "dir" /\ Depth(o[2]) >= 3
    /\ \E q \in InFlight : q[1] = "delete"

\* C8: the process exits with 0 only when every operation of the tree was
\* issued and succeeded, and with 1, the message printed, as soon as a callback
\* finds a failure; after a failure it never exits with 0.
C8_ExitCode ==
  /\ pc = "exit0" =>
        /\ failed = {} /\ ~errPrinted
        /\ \A n \in Present : op[<< "delete", n >>].state = "handled"
        /\ \A d \in Dirs : /\ op[<< "enumerate", d >>].state = "handled"
                           /\ op[<< "next_files", d >>].state = "handled"
  /\ pc = "exit1" => (Cardinality(failed) = 1 /\ errPrinted)
  /\ failed # {} => pc = "exit1"

\* The process has exited with 1 after two entries were deleted.
C8_Witness == pc = "exit1" /\ failed # {} /\ files_deleted >= 2

\* C9 as stated: every operation issued for the tree carries the GCancellable
\* given to rm_rf_async, and none issued after its cancellation succeeds.
C9_TokenThreaded ==
  \A o \in Ops :
    op[o].state # "idle" =>
      /\ op[o].cancellable = cancellable[Root]
      /\ op[o].late => op[o].state # "handled"

\* C10 as stated: after the reporter has fired while the operation is in
\* progress, it is still scheduled to fire again.
C10_FiresAgain == (pc = "run" /\ printed # << >>) => timer

\* The symlinks of the tree.
Links == { n \in Present : kind[n] = "symlink" }

\* C11: a symlink is deleted as a leaf: no context is created for it, no
\* listing is opened or read through it, so that nothing of the directory it
\* points to is ever seen or deleted, and the one delete issued for it is a
\* leaf delete of its parent directory.
C11_SymlinkIsLeaf ==
  \A f \in Links :
    /\ ctx[f] = "none"
    /\ issued[<< "enumerate", f >>] = 0 /\ issued[<< "next_files", f >>] = 0
    /\ issued[<< "delete", f >>] <= 1
    /\ issued[<< "delete", f >>] = 1 =>
         /\ op[<< "delete", f >>].callback = "on_file_deleted"
         /\ op[<< "delete", f >>].data = parent[f]
    /\ completed[f] = 0

\* A symlink has been deleted and counted, and the run has ended with 0.
C11_Witness ==
  /\ pc = "exit0"
  /\ \E f \in Links : op[<< "delete", f >>].state = "handled" /\ f \notin exists

\* The tree root/{a.txt, sub/{b.txt, c.txt}}, in either order of the root's
\* listing: the sub-directories of the root that hold two files and nothing
\* else, and the files of the root.
ExampleSub ==
  { n \in Children(Root) :
      /\ kind[n] = "dir" /\ Cardinality(Children(n)) = 2
      /\ \A c \in Children(n) : kind[c] = "file" }

ExampleFile == { n \in Children(Root) : kind[n] = "file" }

IsExampleTree ==
  /\ Cardinality(Present) = 5
  /\ Cardinality(ExampleSub) = 1 /\ Cardinality(ExampleFile) = 1

\* x is gone from disk by the time y is.
GoneBefore(x, y) == y \notin exists => x \notin exists

\* C12 as stated: on the example tree a.txt, b.txt and c.txt are each deleted
\* before sub, sub before the root, and a successful run ends with the counter at 4.
C12_ExampleAsStated ==
  IsExampleTree =>
    \A sub \in ExampleSub :
      /\ \A a \in ExampleFile : GoneBefore(a, sub)
      /\ \A b \in Children(sub) : GoneBefore(b, sub)
      /\ GoneBefore(sub, Root)
      /\ Notified => files_deleted = 4

\* C12 amended: on the example tree b.txt and c.txt are each deleted before the
\* delete of sub is issued, a.txt and sub before the delete of the root is, and
\* a successful run ends with the counter at 5, the root counted; a.txt and sub
\* are siblings, deleted in either order.
C12_Example ==
  IsExampleTree =>
    \A sub \in ExampleSub :
      /\ \A b \in Children(sub) :
           /\ GoneBefore(b, sub)
           /\ issued[<< "delete", sub >>] > 0 => b \notin exists
      /\ \A a \in ExampleFile \cup {sub} :
           /\ GoneBefore(a, Root)
           /\ issued[<< "delete", Root >>] > 0 => a \notin exists
      /\ Notified => files_deleted = 5

\* The run on the example tree has succeeded and ended with 0.
C12_Witness == IsExampleTree /\ pc = "exit0" /\ exists = {} /\ files_deleted = 5

\* C13: the delete of a directory is issued at most once, whatever the order
\* in which the callbacks of its batches and of its entries run.
C13_DeleteIssuedOnce == \A d \in Dirs : issued[<< "delete", d >>] <= 1

\* A directory whose entries came in two batches or more, a sub-directory among
\* them, has had its delete issued once and handled.
C13_Witness ==
  \E d \in Dirs :
    /\ issued[<< "delete", d >>] = 1 /\ op[<< "delete", d >>].state = "handled"
    /\ issued[<< "next_files", d >>] >= 3
    /\ \E n \in Children(d) : kind[n] = "dir"

\* The entries of d dispatched by on_next_files whose delete has not been
\* confirmed to d.
Outstanding(d) == { n \in Observed(d) : ~Confirmed(n) }

\* A callback has found the failure of an operation on entry n.
Aborted(n) == \E o \in failed : o[2] = n

\* C14 as stated: num_files_pending is the number of dispatched entries whose
\* outcome, success or failure, no callback has processed yet.
C14_PendingAsStated ==
  \A d \in LiveContexts :
    /\ num_files_pending[d] >= 0
    /\ num_files_pending[d] = Cardinality({ n \in Outstanding(d) : ~Aborted(n) })

\* C14 amended: num_files_pending is never negative and is the number of
\* dispatched entries whose delete has not been confirmed.  A failure is not
\* subtracted: the callback that finds it exits the process first.
C14_PendingIsOutstanding ==
  \A d \in LiveContexts :
    /\ num_files_pending[d] >= 0
    /\ num_files_pending[d] = Cardinality(Outstanding(d))
    /\ \A n \in Outstanding(d) :
         Aborted(n) => (pc = "exit1" /\ n \in exists)

\* The delete of a leaf has failed while its directory, with an entry already
\* confirmed, waited for two: the failed one is still counted.
C14_Witness ==
  \E o \in failed :
    /\ o[1] = "delete" /\ kind[o[2]] # "dir"
    /\ num_files_pending[parent[o[2]]] = 2
    /\ cursor[parent[o[2]]] >= 3

\* on_next_files has started the delete, or the recursive removal, of entry n.
Dispatched(n) ==
  IF kind[n] = "dir"
  THEN ctx[n] # "none" /\ issued[<< "enumerate", n >>] > 0
  ELSE issued[<< "delete", n >>] > 0

\* C15 as stated: when on_next_files requests the next batch, it has
\* dispatched every entry of the batch it is handling.
C15_RequestAfterDispatch ==
  [][\A d \in Nodes :
       cursor'[d] > cursor[d] => requestPos'[d] = cursor'[d] - cursor[d]]_vars

\* C15 amended: on_next_files requests the next batch before it dispatches the
\* first entry of the batch it is handling, and dispatches every entry of that
\* batch before it returns, so before the callback of the next batch can run.
C15_RequestBeforeDispatch ==
  [][\A d \in Nodes :
       cursor'[d] > cursor[d] =>
         /\ requestPos'[d] = 0
         /\ op'[<< "next_files", d >>].state = "pending"
         /\ issued'[<< "next_files", d >>] = issued[<< "next_files", d >>] + 1
         /\ \A n \in Observed(d)' : Dispatched(n)'
         /\ num_files_pending'[d] =
              num_files_pending[d] + (cursor'[d] - cursor[d])]_vars

\* A second batch of a directory is in flight, the entries of the batches
\* before it, a sub-directory among them, all dispatched.
C15_Witness ==
  \E d \in Dirs :
    /\ issued[<< "next_files", d >>] >= 2
    /\ op[<< "next_files", d >>].state = "pending"
    /\ cursor[d] >= 2
    /\ \E n \in Observed(d) : kind[n] = "dir"
    /\ \A n \in Observed(d) : Dispatched(n)

\* C16: from the step in which a callback finds a failure on, no operation is
\* issued, no callback is called for the operations in flight and
\* files_deleted keeps its value: the process exits in that step.
C16_NothingAfterFailure ==
  [][failed' # {} =>
       /\ issued' = issued /\ op' = op
       /\ files_deleted' = files_deleted
       /\ completed' = completed /\ finished' = finished
       /\ pc' = "exit1"]_vars

\* The process has exited on a failure with entries deleted before it and two
\* operations left in flight, the delete of a leaf among them.
C16_Witness ==
  /\ pc = "exit1" /\ failed # {} /\ files_deleted >= 1
  /\ Cardinality(InFlight \ failed) >= 2
  /\ \E o \in InFlight \ failed : op[o].callback = "on_file_deleted"

\* The directories of the tree that hold nothing.
EmptyDirs == { d \in Dirs : Children(d) = {} }

\* C17: once the first batch of an empty directory has come back, empty, the
\* directory's own delete has been issued, by the callback of that batch, with
\* num_files_pending 0, whatever its parent is still waiting for.
C17_EmptyDirectory ==
  \A d \in EmptyDirs :
    op[<< "next_files", d >>].state = "handled" =>
      /\ issued[<< "next_files", d >>] = 1
      /\ issued[<< "delete", d >>] = 1
      /\ num_files_pending[d] = 0 /\ ~have_more_files[d]

\* The delete of an empty sub-directory is in flight while its parent waits
\* for two more entries and for its next batch.
C17_Witness ==
  \E d \in EmptyDirs :
    /\ d # Root
    /\ op[<< "delete", d >>].state = "pending"
    /\ num_files_pending[parent[d]] >= 3
    /\ op[<< "next_files", parent[d] >>].state = "pending"

\* The contexts that g_free has released.
Freed == { n \in Nodes : ctx[n] = "freed" }

\* C18: a context is freed only when the callback of its result has been
\* called; no operation in flight has a freed context as its user_data, nor
\* has the result of a context still in use, so that no callback runs on a
\* freed context.
C18_FreedAfterSink ==
  /\ \A d \in Freed :
       /\ completed[d] = 1
       /\ \A o \in InFlight : op[o].data # d
       /\ \A n \in LiveContexts : result[n].user_data # d
  /\ \A o \in InFlight : op[o].data \in LiveContexts

\* The context of a sub-directory is freed while its parent still waits for
\* operations that have the parent's context as user_data.
C18_Witness ==
  \E d \in Freed :
    /\ d # Root /\ parent[d] \in LiveContexts
    /\ \E o \in InFlight : op[o].data = parent[d]
    /\ \E n \in Children(parent[d]) : n # d /\ n \in LiveContexts

\* C19 as stated: when on_rm_finished is called no operation is in flight and
\* every context allocated during the run has been freed.
C19_AllReleasedAtFinish ==
  finished > 0 => (InFlight = {} /\ liveAtFinish = {})

\* C19 amended: when on_rm_finished is called no operation is in flight, so
\* that one operation that never completes keeps it from being called, and
\* every context but the root's has been freed; the root's context is freed
\* when on_rm_finished has returned.
C19_NothingLeftAtFinish ==
  /\ finished > 0 =>
       /\ InFlight = {}
       /\ liveAtFinish = {Root}
       /\ LiveContexts = {} /\ Freed = Dirs
  /\ InFlight # {} => finished = 0
  /\ finished <= 1

\* on_rm_finished has been called for a tree of three directories.
C19_Witness ==
  /\ finished = 1 /\ pc = "quit"
  /\ Cardinality(Freed) >= 3 /\ Cardinality(Present) >= 5

\* The context of d is allocated and its first batch has not come back yet.
AwaitingFirstBatch(d) ==
  /\ ctx[d] = "live"
  /\ cursor[d] = 0
  /\ op[<< "next_files", d >>].state # "handled"

\* The operations in flight, and the live contexts, started for an entry of d:
\* those that report to the context of d.
ChildOps(d) ==
  { o \in InFlight : op[o].data = d /\ op[o].callback = "on_file_deleted" }
    \cup { << "enumerate", n >> : n \in { m \in LiveContexts : result[m].user_data = d } }

\* C20: while a context waits for its first batch, its fields would satisfy
\* check_no_children, but nothing evaluates it: the directory's delete is not
\* issued and no operation started for an entry exists whose callback would.
\* And while a directory's own delete is in flight, no batch request and no
\* operation started for an entry of it is outstanding.
C20_NoEarlyCheck ==
  /\ \A d \in Nodes :
       AwaitingFirstBatch(d) =>
         /\ check_no_children(num_files_pending[d], have_more_files[d])
         /\ issued[<< "delete", d >>] = 0
         /\ ChildOps(d) = {}
  /\ \A d \in Dirs :
       op[<< "delete", d >>].state = "pending" =>
         /\ op[<< "enumerate", d >>].state = "handled"
         /\ op[<< "next_files", d >>].state = "handled"
         /\ ChildOps(d) = {}
         /\ num_files_pending[d] = 0 /\ ~have_more_files[d]

\* A sub-directory waits for its first batch, requested, while the delete of
\* another directory is in flight.
C20_Witness ==
  /\ \E d \in Dirs :
       /\ d # Root /\ AwaitingFirstBatch(d)
       /\ op[<< "next_files", d >>].state = "pending"
       /\ Children(d) # {}
  /\ \E e \in Dirs : op[<< "delete", e >>].state = "pending" /\ Children(e) # {}

====
